---- MODULE Spec2Model ----
(***************************************************************************)
(* A model of the APNG assembler of Jarigyani/apng-generater               *)
(* (lib/convertToAPNG.ts): chunk parsing, chunk framing, CRC-32, the       *)
(* animation chunk builders and the createAPNG / convertToAPNG call; and    *)
(* of the page (App.tsx) that calls it.  Spec is one convertToAPNG call    *)
(* after another; SpecCalls keeps a history across the calls; SpecUI is    *)
(* the page; SpecParse is the loop of extractAllChunks.                    *)
(*                                                                         *)
(* Byte buffers (Uint8Array) are sequences of integers 0..255.  JavaScript *)
(* offsets are 0-based; sequences here are 1-based, so byte `off` of a     *)
(* buffer is buf[off + 1].  A JavaScript string (a chunk type) is the      *)
(* sequence of its code points.  A 32-bit CRC register is a pair           *)
(* <<high 16 bits, low 16 bits>>, because TLC's integers are 32-bit signed.*)
(***************************************************************************)
EXTENDS Integers, Sequences, FiniteSets, TLC

\* The longest image list a call is given.
MaxImages == 2

VARIABLES
    images,             \* createAPNG's parameter: the list of PNG byte buffers
    delay,              \* createAPNG's parameter: the frame delay
    pc,                 \* where the current convertToAPNG call stands
    chunks,             \* createAPNG's local `chunks`: the emitted byte arrays
    firstImageChunks,   \* createAPNG's local: the parsed chunks of images[0]
    width,              \* createAPNG's local, read from IHDR
    height,             \* createAPNG's local, read from IHDR
    j,                  \* position of the `for (const chunk of firstImageChunks)` loop
    sequenceNumber,     \* createAPNG's local counter
    i,                  \* the frame loop's index (0-based, as in the code)
    binary,             \* newPngData: the concatenated output (<<>> until built)
    error,              \* the exception thrown inside createAPNG ("none" if none)
    ret,                \* what convertToAPNG returned
    previous,           \* history: an earlier call's arguments and result
    variant,            \* which App is mounted ("none" before mounting)
    files,              \* the UI's `files` signal
    delaySignal,        \* the UI's `delay` signal
    uiData,             \* the UI's store `data`: url, binary, processingTime
    parseData,          \* extractAllChunks' parameter pngData
    parseOffset,        \* extractAllChunks' local `offset`
    parseChunks,        \* extractAllChunks' local `chunks`
    parseOffsets,       \* history: the offset each pushed chunk was read at
    parsePc             \* where the current extractAllChunks call stands

callVars == <<images, delay, pc, chunks, firstImageChunks, width, height, j,
              sequenceNumber, i, binary, error, ret>>
uiVars == <<variant, files, delaySignal, uiData>>
parseVars == <<parseData, parseOffset, parseChunks, parseOffsets, parsePc>>

vars == <<callVars, previous, uiVars, parseVars>>

-----------------------------------------------------------------------------
(* Bytes, integers and text                                                *)

PNG_SIGNATURE == <<137, 80, 78, 71, 13, 10, 26, 10>>

\* The chunk types the code names, as strings (sequences of code points).
TypeIHDR == <<73, 72, 68, 82>>
TypeIDAT == <<73, 68, 65, 84>>
TypeIEND == <<73, 69, 78, 68>>
TypeacTL == <<97, 99, 84, 76>>
TypefcTL == <<102, 99, 84, 76>>
TypefdAT == <<102, 100, 65, 84>>

Min(a, b) == IF a < b THEN a ELSE b

\* Uint8Array.prototype.slice(start, end) for 0 <= start: both ends are
\* clamped to the array's length, nothing is thrown.
Slice(arr, start, end) == SubSeq(arr, start + 1, Min(end, Len(arr)))

\* DataView.getUint32(off) (big-endian) where the four bytes exist.  The files
\* below keep every 32-bit field under 2^31, the largest integer TLC holds.
GetUint32(buf, off) ==
    buf[off + 1] * 16777216 + buf[off + 2] * 65536 + buf[off + 3] * 256 + buf[off + 4]

\* DataView.getUint16(off) (big-endian) where the two bytes exist.
GetUint16(buf, off) == buf[off + 1] * 256 + buf[off + 2]

\* DataView.setUint32(_, n): the four big-endian bytes of n (n >= 0).
SetUint32(n) ==
    <<(n \div 16777216) % 256, (n \div 65536) % 256, (n \div 256) % 256, n % 256>>

\* DataView.setUint16(_, n): the two big-endian bytes of n modulo 2^16.
SetUint16(n) == <<(n \div 256) % 256, n % 256>>

\* DataView.setUint8(_, n).
SetUint8(n) == <<n % 256>>

\* UTF-8 decoding as TextDecoder does it (WHATWG Encoding, replacement mode).
\* How many continuation bytes the lead byte b asks for (0: ASCII or invalid).
Utf8Needed(b) ==
    IF b >= 194 /\ b <= 223 THEN 1
    ELSE IF b >= 224 /\ b <= 239 THEN 2
    ELSE IF b >= 240 /\ b <= 244 THEN 3
    ELSE 0

\* The range allowed for the m-th continuation byte (m counted from 0).
Utf8Lower(lead, m) ==
    IF m > 0 THEN 128 ELSE IF lead = 224 THEN 160 ELSE IF lead = 240 THEN 144 ELSE 128

Utf8Upper(lead, m) ==
    IF m > 0 THEN 191 ELSE IF lead = 237 THEN 159 ELSE IF lead = 244 THEN 143 ELSE 191

\* The number of valid continuation bytes that follow the lead byte at k.
RECURSIVE Utf8Continuations(_, _, _)
Utf8Continuations(bytes, k, m) ==
    IF m = Utf8Needed(bytes[k]) \/ k + m + 1 > Len(bytes) THEN m
    ELSE IF bytes[k + m + 1] >= Utf8Lower(bytes[k], m)
            /\ bytes[k + m + 1] <= Utf8Upper(bytes[k], m)
         THEN Utf8Continuations(bytes, k, m + 1)
         ELSE m

\* The code point of the complete sequence that starts at k.
Utf8CodePoint(bytes, k) ==
    CASE Utf8Needed(bytes[k]) = 1 ->
            (bytes[k] - 192) * 64 + (bytes[k + 1] - 128)
      [] Utf8Needed(bytes[k]) = 2 ->
            (bytes[k] - 224) * 4096 + (bytes[k + 1] - 128) * 64 + (bytes[k + 2] - 128)
      [] OTHER ->
            (bytes[k] - 240) * 262144 + (bytes[k + 1] - 128) * 4096
            + (bytes[k + 2] - 128) * 64 + (bytes[k + 3] - 128)

RECURSIVE Utf8DecodeFrom(_, _)
Utf8DecodeFrom(bytes, k) ==
    IF k > Len(bytes) THEN <<>>
    ELSE IF bytes[k] < 128 THEN <<bytes[k]>> \o Utf8DecodeFrom(bytes, k + 1)
    ELSE IF Utf8Needed(bytes[k]) = 0 THEN <<65533>> \o Utf8DecodeFrom(bytes, k + 1)
    ELSE IF Utf8Continuations(bytes, k, 0) = Utf8Needed(bytes[k])
         THEN <<Utf8CodePoint(bytes, k)>>
              \o Utf8DecodeFrom(bytes, k + 1 + Utf8Needed(bytes[k]))
         ELSE <<65533>>
              \o Utf8DecodeFrom(bytes, k + 1 + Utf8Continuations(bytes, k, 0))

\* new TextDecoder().decode(bytes): UTF-8, errors replaced by U+FFFD, a
\* leading byte order mark dropped.
TextDecode(bytes) ==
    IF Utf8DecodeFrom(bytes, 1) # <<>> /\ Head(Utf8DecodeFrom(bytes, 1)) = 65279
    THEN Tail(Utf8DecodeFrom(bytes, 1))
    ELSE Utf8DecodeFrom(bytes, 1)

\* The UTF-8 bytes of one code point.
Utf8EncodeOne(cp) ==
    IF cp < 128 THEN <<cp>>
    ELSE IF cp < 2048 THEN <<192 + (cp \div 64), 128 + (cp % 64)>>
    ELSE IF cp < 65536
         THEN <<224 + (cp \div 4096), 128 + ((cp \div 64) % 64), 128 + (cp % 64)>>
         ELSE <<240 + (cp \div 262144), 128 + ((cp \div 4096) % 64),
                128 + ((cp \div 64) % 64), 128 + (cp % 64)>>

\* new TextEncoder().encode(str).
RECURSIVE TextEncode(_)
TextEncode(str) ==
    IF str = <<>> THEN <<>> ELSE Utf8EncodeOne(Head(str)) \o TextEncode(Tail(str))

-----------------------------------------------------------------------------
(* crc32                                                                   *)

RECURSIVE XorBits(_, _, _)
XorBits(a, b, n) ==
    IF n = 0 THEN 0
    ELSE ((a + b) % 2) + 2 * XorBits(a \div 2, b \div 2, n - 1)

\* a ^ b on 4-bit values, tabulated.
Xor4Table == [k \in 1..256 |-> XorBits((k - 1) \div 16, (k - 1) % 16, 4)] \o <<>>

Xor4(a, b) == Xor4Table[16 * a + b + 1]

Xor8(a, b) == 16 * Xor4(a \div 16, b \div 16) + Xor4(a % 16, b % 16)

Xor16(a, b) == 256 * Xor8(a \div 256, b \div 256) + Xor8(a % 256, b % 256)

\* a ^ b on 32-bit registers <<high, low>>.
Xor32(a, b) == <<Xor16(a[1], b[1]), Xor16(a[2], b[2])>>

\* c >>> 1 and c >>> 8 on 32-bit registers.
Shr1(c) == <<c[1] \div 2, (c[1] % 2) * 32768 + (c[2] \div 2)>>

Shr8(c) == <<c[1] \div 256, (c[1] % 256) * 256 + (c[2] \div 256)>>

\* The inner loop of the table's construction: r rounds left on c.
\* 0xedb88320 is <<60856, 33568>>.
RECURSIVE CrcTableEntry(_, _)
CrcTableEntry(c, r) ==
    IF r = 0 THEN c
    ELSE CrcTableEntry(IF c[2] % 2 = 1 THEN Xor32(<<60856, 33568>>, Shr1(c))
                                       ELSE Shr1(c),
                       r - 1)

\* crcTable[n + 1] is the code's crcTable[n].
crcTable == [k \in 1..256 |-> CrcTableEntry(<<0, k - 1>>, 8)] \o <<>>

\* The loop over data from position k, the register being crc.
RECURSIVE CrcLoop(_, _, _)
CrcLoop(crc, data, k) ==
    IF k > Len(data) THEN crc
    ELSE CHOOSE r \in
            { CrcLoop(Xor32(Shr8(c), crcTable[Xor8(c[2] % 256, data[k]) + 1]),
                      data, k + 1) : c \in {crc} } : TRUE

\* crc32(data): the register starts at -1 (all ones) and is complemented.
crc32(data) == Xor32(CrcLoop(<<65535, 65535>>, data, 1), <<65535, 65535>>)

\* The four big-endian bytes setUint32 stores for a CRC register.
CrcBytes(c) == <<c[1] \div 256, c[1] % 256, c[2] \div 256, c[2] % 256>>

-----------------------------------------------------------------------------
(* Chunks                                                                  *)

\* createChunk with the length field counting the type bytes as well.
createChunk_LengthWithType(type, data) ==
    SetUint32(Len(TextEncode(type)) + Len(data)) \o TextEncode(type) \o data
    \o CrcBytes(crc32(TextEncode(type) \o data))

\* createChunk(type, data): length, type, data, CRC over type and data.
createChunk(type, data) ==
    SetUint32(Len(data)) \o TextEncode(type) \o data
    \o CrcBytes(crc32(TextEncode(type) \o data))

\* createActlChunk(numFrames).
createActlChunk(numFrames) ==
    createChunk(TypeacTL, SetUint32(numFrames) \o SetUint32(0))

\* createFctlChunk with width and height written in each other's place.
createFctlChunk_Swapped(seq, w, h, d) ==
    createChunk(TypefcTL,
                SetUint32(seq) \o SetUint32(h) \o SetUint32(w)
                \o SetUint32(0) \o SetUint32(0)
                \o SetUint16(d) \o SetUint16(1000)
                \o SetUint8(0) \o SetUint8(0))

\* createFctlChunk(sequenceNumber, width, height, delay).
createFctlChunk(seq, w, h, d) ==
    createChunk(TypefcTL,
                SetUint32(seq) \o SetUint32(w) \o SetUint32(h)
                \o SetUint32(0) \o SetUint32(0)
                \o SetUint16(d) \o SetUint16(1000)
                \o SetUint8(0) \o SetUint8(0))

\* createFdatChunks with the index forgotten: every fdAT gets the start number.
createFdatChunks_SameNumber(idatChunks, startSequenceNumber) ==
    [index \in 1..Len(idatChunks) |->
        createChunk(TypefdAT, SetUint32(startSequenceNumber) \o idatChunks[index])]

\* createFdatChunks(idatChunks, startSequenceNumber).
createFdatChunks(idatChunks, startSequenceNumber) ==
    [index \in 1..Len(idatChunks) |->
        createChunk(TypefdAT,
                    SetUint32(startSequenceNumber + (index - 1)) \o idatChunks[index])]

\* The loop of extractAllChunks from `offset` on.  The result is
\* [err, chunks]: err is "RangeError" when DataView.getUint32 reads past the
\* end of the buffer (the exception discards the chunks read so far).
RECURSIVE ExtractFrom(_, _)
ExtractFrom(pngData, offset) ==
    IF ~(offset < Len(pngData)) THEN [err |-> "none", chunks |-> <<>>]
    ELSE IF offset + 4 > Len(pngData) THEN [err |-> "RangeError", chunks |-> <<>>]
    ELSE LET chunkLength == GetUint32(pngData, offset)
             chunkType == TextDecode(Slice(pngData, offset + 4, offset + 8))
             chunkData == Slice(pngData, offset + 8, offset + 8 + chunkLength)
             chunk == [type |-> chunkType, data |-> chunkData]
         IN  IF chunkType = TypeIEND THEN [err |-> "none", chunks |-> <<chunk>>]
             ELSE CHOOSE r \in
                    { [err |-> rest.err,
                       chunks |-> IF rest.err = "none" THEN <<chunk>> \o rest.chunks
                                  ELSE <<>>] :
                      rest \in { ExtractFrom(pngData, offset + chunkLength + 12) } } : TRUE

\* extractAllChunks(pngData): the loop starts after the 8-byte signature.
extractAllChunks(pngData) == ExtractFrom(pngData, 8)

\* concatenateUint8Arrays(arrays).
RECURSIVE concatenateUint8Arrays(_)
concatenateUint8Arrays(arrays) ==
    IF arrays = <<>> THEN <<>>
    ELSE Head(arrays) \o concatenateUint8Arrays(Tail(arrays))

\* FindType taking the first chunk for the one looked for.
FindType_First(cs, type, k) == IF cs = <<>> THEN 0 ELSE 1

\* The index of the first chunk of type `type`, 0 if there is none
\* (Array.prototype.find).
RECURSIVE FindType(_, _, _)
FindType(cs, type, k) ==
    IF k > Len(cs) THEN 0
    ELSE IF cs[k].type = type THEN k
    ELSE FindType(cs, type, k + 1)

\* imageChunks.filter(type === "IDAT").map(chunk => chunk.data).
RECURSIVE IdatData(_)
IdatData(cs) ==
    IF cs = <<>> THEN <<>>
    ELSE IF Head(cs).type = TypeIDAT THEN <<Head(cs).data>> \o IdatData(Tail(cs))
    ELSE IdatData(Tail(cs))

-----------------------------------------------------------------------------
(* The files a call may be given                                           *)

\* One chunk as it lies in a file: the length field, the four type bytes,
\* the payload bytes present, and the stored CRC bytes (which the code
\* never reads, so they need not be right).
FileChunk(lengthField, typeBytes, data) ==
    SetUint32(lengthField) \o typeBytes \o data \o <<222, 173, 190, 239>>

IhdrData(w, h) == SetUint32(w) \o SetUint32(h) \o <<8, 2, 0, 0, 0>>

\* A minimal 1x1 image: IHDR, one IDAT, IEND.
Png1x1 ==
    PNG_SIGNATURE \o FileChunk(13, TypeIHDR, IhdrData(1, 1))
    \o FileChunk(2, TypeIDAT, <<120, 156>>) \o FileChunk(0, TypeIEND, <<>>)

\* A 2x3 image with a chunk before IDAT (gAMA), two IDATs, a chunk after
\* them (tEXt), IEND, and one more IDAT after IEND.
PngRich ==
    PNG_SIGNATURE \o FileChunk(13, TypeIHDR, IhdrData(2, 3))
    \o FileChunk(4, <<103, 65, 77, 65>>, <<0, 0, 177, 143>>)
    \o FileChunk(1, TypeIDAT, <<7>>) \o FileChunk(2, TypeIDAT, <<8, 9>>)
    \o FileChunk(1, <<116, 69, 88, 116>>, <<65>>)
    \o FileChunk(0, TypeIEND, <<>>) \o FileChunk(1, TypeIDAT, <<66>>)

\* IHDR and IEND, no IDAT.
PngNoIdat ==
    PNG_SIGNATURE \o FileChunk(13, TypeIHDR, IhdrData(1, 1))
    \o FileChunk(0, TypeIEND, <<>>)

\* No IHDR.
PngNoIhdr ==
    PNG_SIGNATURE \o FileChunk(1, TypeIDAT, <<5>>) \o FileChunk(0, TypeIEND, <<>>)

\* Cut inside the payload of its IDAT: 5 bytes declared, 2 present.
PngCutData ==
    PNG_SIGNATURE \o FileChunk(13, TypeIHDR, IhdrData(1, 1))
    \o SetUint32(5) \o TypeIDAT \o <<120, 156>>

\* Cut inside a length field: two stray bytes after the IDAT.
PngCutLength ==
    PNG_SIGNATURE \o FileChunk(13, TypeIHDR, IhdrData(1, 1))
    \o FileChunk(2, TypeIDAT, <<120, 156>>) \o <<0, 0>>

\* Cut inside the payload of its IHDR: 13 bytes declared, 3 present.
PngCutHeader == PNG_SIGNATURE \o SetUint32(13) \o TypeIHDR \o <<0, 0, 0>>

\* An image that is already animated: acTL and fcTL before its IDAT.
PngAnimated ==
    PNG_SIGNATURE \o FileChunk(13, TypeIHDR, IhdrData(1, 1))
    \o FileChunk(8, TypeacTL, SetUint32(1) \o SetUint32(0))
    \o FileChunk(26, TypefcTL,
                 SetUint32(0) \o SetUint32(1) \o SetUint32(1) \o SetUint32(0)
                 \o SetUint32(0) \o SetUint16(100) \o SetUint16(1000) \o <<0, 0>>)
    \o FileChunk(2, TypeIDAT, <<120, 156>>) \o FileChunk(0, TypeIEND, <<>>)

\* A chunk before IDAT whose type bytes are not valid UTF-8 (t, 0xFF, X, t).
PngOddType ==
    PNG_SIGNATURE \o FileChunk(13, TypeIHDR, IhdrData(1, 1))
    \o FileChunk(1, <<116, 255, 88, 116>>, <<65>>)
    \o FileChunk(2, TypeIDAT, <<120, 156>>) \o FileChunk(0, TypeIEND, <<>>)

Pool ==
    { Png1x1, PngRich, PngNoIdat, PngNoIhdr, PngCutData, PngCutLength,
      PngCutHeader, PngAnimated, PngOddType }

\* The image lists of at most MaxImages files, the empty list included.
ImageLists == UNION { [1..n -> Pool] : n \in 0..MaxImages }

\* The delays: the slider's default and its maximum.
Delays == {100, 500}

-----------------------------------------------------------------------------
(* convertToAPNG and createAPNG                                            *)

NoReturn == [kind |-> "none", url |-> "", binary |-> <<>>]

\* No call is remembered.
NoCall == [kind |-> "none", images |-> <<>>, delay |-> 0, binary |-> <<>>]

\* createStore({ url: "", binary: new Uint8Array(), processingTime: "" })
EmptyStore == [url |-> "", binary |-> <<>>, processingTime |-> ""]

Init ==
    /\ images = <<>>
    /\ delay = 100
    /\ pc = "idle"
    /\ chunks = <<>>
    /\ firstImageChunks = <<>>
    /\ width = 0
    /\ height = 0
    /\ j = 0
    /\ sequenceNumber = 0
    /\ i = 0
    /\ binary = <<>>
    /\ error = "none"
    /\ ret = NoReturn
    /\ previous = NoCall
    /\ variant = "none"
    /\ files = <<>>
    /\ delaySignal = 100
    /\ uiData = EmptyStore
    /\ parseData = <<>>
    /\ parseOffset = 8
    /\ parseChunks = <<>>
    /\ parseOffsets = <<>>
    /\ parsePc = "idle"

\* convertToAPNG(images, delay) is called: createAPNG starts with fresh locals.
ConvertCall ==
    /\ pc \in {"idle", "done"}
    /\ \E imgs \in ImageLists, d \in Delays :
          /\ images' = imgs
          /\ delay' = d
    /\ pc' = "start"
    /\ chunks' = <<>>
    /\ firstImageChunks' = <<>>
    /\ width' = 0
    /\ height' = 0
    /\ j' = 0
    /\ sequenceNumber' = 0
    /\ i' = 0
    /\ binary' = <<>>
    /\ error' = "none"
    /\ ret' = NoReturn

\* createAPNG up to the reading of width and height.  images[0] of an empty
\* list is undefined, and extractAllChunks(undefined) throws a TypeError at
\* `pngData.length`; a missing IHDR is the code's own `throw new Error`;
\* getUint32 on an IHDR payload of fewer than 8 bytes throws a RangeError.
Throw(e) ==
    /\ error' = e
    /\ pc' = "thrown"
    /\ UNCHANGED <<firstImageChunks, width, height, j>>

ParseFirstImage ==
    /\ pc = "start"
    /\ chunks' = <<PNG_SIGNATURE>>
    /\ IF Len(images) = 0 THEN Throw("TypeError")
       ELSE LET parsed == extractAllChunks(images[1])
                k == FindType(parsed.chunks, TypeIHDR, 1)
            IN  IF parsed.err # "none" THEN Throw(parsed.err)
                ELSE IF k = 0 THEN Throw("IHDRNotFound")
                ELSE IF Len(parsed.chunks[k].data) < 8 THEN Throw("RangeError")
                ELSE /\ firstImageChunks' = parsed.chunks
                     /\ width' = GetUint32(parsed.chunks[k].data, 0)
                     /\ height' = GetUint32(parsed.chunks[k].data, 4)
                     /\ j' = 1
                     /\ pc' = "copy"
                     /\ error' = "none"
    /\ UNCHANGED <<images, delay, sequenceNumber, i, binary, ret>>

\* One round of the loop that copies the first image's chunks before IDAT.
CopyChunk ==
    /\ pc = "copy"
    /\ j <= Len(firstImageChunks)
    /\ firstImageChunks[j].type # TypeIDAT
    /\ chunks' = Append(chunks, createChunk(firstImageChunks[j].type,
                                            firstImageChunks[j].data))
    /\ j' = j + 1
    /\ UNCHANGED <<images, delay, pc, firstImageChunks, width, height,
                   sequenceNumber, i, binary, error, ret>>

\* A variant whose sequence counter is not restarted by the call.
EmitActl_KeepCounter ==
    /\ pc = "copy"
    /\ IF j > Len(firstImageChunks) THEN TRUE
       ELSE firstImageChunks[j].type = TypeIDAT
    /\ chunks' = Append(chunks, createActlChunk(Len(images)))
    /\ sequenceNumber' = sequenceNumber
    /\ i' = 0
    /\ pc' = "frames"
    /\ UNCHANGED <<images, delay, firstImageChunks, width, height, j,
                   binary, error, ret>>

\* The copy loop ends (at an IDAT, or with the list); acTL is pushed and the
\* sequence counter starts.
EmitActl ==
    /\ pc = "copy"
    /\ IF j > Len(firstImageChunks) THEN TRUE
       ELSE firstImageChunks[j].type = TypeIDAT
    /\ chunks' = Append(chunks, createActlChunk(Len(images)))
    /\ sequenceNumber' = 0
    /\ i' = 0
    /\ pc' = "frames"
    /\ UNCHANGED <<images, delay, firstImageChunks, width, height, j,
                   binary, error, ret>>

\* The frame loop's first statement: fcTL with sequenceNumber++.
EmitFctl ==
    /\ pc = "frames"
    /\ i < Len(images)
    /\ chunks' = Append(chunks, createFctlChunk(sequenceNumber, width, height, delay))
    /\ sequenceNumber' = sequenceNumber + 1
    /\ pc' = "data"
    /\ UNCHANGED <<images, delay, firstImageChunks, width, height, j, i,
                   binary, error, ret>>

\* The rest of the frame loop's body: the frame is parsed and its IDAT
\* payloads pushed, as IDAT for the first image and as fdAT for the others.
EmitFrameData ==
    /\ pc = "data"
    /\ LET parsed == extractAllChunks(images[i + 1])
           idatChunks == IdatData(parsed.chunks)
       IN  IF parsed.err # "none"
           THEN /\ error' = parsed.err
                /\ pc' = "thrown"
                /\ UNCHANGED <<chunks, sequenceNumber, i>>
           ELSE /\ IF i = 0
                   THEN /\ chunks' = chunks \o [n \in 1..Len(idatChunks) |->
                                                 createChunk(TypeIDAT, idatChunks[n])]
                        /\ sequenceNumber' = sequenceNumber
                   ELSE /\ chunks' = chunks \o createFdatChunks(idatChunks, sequenceNumber)
                        /\ sequenceNumber' = sequenceNumber + Len(idatChunks)
                /\ i' = i + 1
                /\ pc' = "frames"
                /\ error' = "none"
    /\ UNCHANGED <<images, delay, firstImageChunks, width, height, j, binary, ret>>

\* After the frame loop: IEND is pushed and the chunks are concatenated.
EmitIend ==
    /\ pc = "frames"
    /\ ~(i < Len(images))
    /\ chunks' = Append(chunks, createChunk(TypeIEND, <<>>))
    /\ binary' = concatenateUint8Arrays(chunks')
    /\ pc' = "built"
    /\ UNCHANGED <<images, delay, firstImageChunks, width, height, j,
                   sequenceNumber, i, error, ret>>

\* convertToAPNG's try block after createAPNG resolved: the object URL is
\* created and the result returned.
ConvertReturn ==
    /\ pc = "built"
    /\ ret' = [kind |-> "value", url |-> "blob:", binary |-> binary]
    /\ pc' = "done"
    /\ UNCHANGED <<images, delay, chunks, firstImageChunks, width, height, j,
                   sequenceNumber, i, binary, error>>

\* convertToAPNG's catch block: the error is logged, undefined returned.
ConvertCatch ==
    /\ pc = "thrown"
    /\ ret' = [kind |-> "undefined", url |-> "", binary |-> <<>>]
    /\ pc' = "done"
    /\ UNCHANGED <<images, delay, chunks, firstImageChunks, width, height, j,
                   sequenceNumber, i, binary, error>>

\* What a run of convertToAPNG alone leaves as it is.
Aside == <<previous, uiVars, parseVars>>

Next ==
    \/ ConvertCall /\ UNCHANGED Aside
    \/ ParseFirstImage /\ UNCHANGED Aside
    \/ CopyChunk /\ UNCHANGED Aside
    \/ EmitActl /\ UNCHANGED Aside
    \/ EmitFctl /\ UNCHANGED Aside
    \/ EmitFrameData /\ UNCHANGED Aside
    \/ EmitIend /\ UNCHANGED Aside
    \/ ConvertReturn /\ UNCHANGED Aside
    \/ ConvertCatch /\ UNCHANGED Aside

Spec == Init /\ [][Next]_vars

-----------------------------------------------------------------------------
(* extractAllChunks, one round of its loop at a time                       *)
(*                                                                         *)
(* The buffers are the files of Pool cut at every length, so that every    *)
(* field of every chunk is missing or half there in some buffer.           *)

ParseInputs == { SubSeq(p, 1, n) : <<p, n>> \in
                    UNION { {f} \X (0..Len(f)) : f \in Pool } }

\* extractAllChunks(pngData) is called: chunks = [], offset = 8.
ExtractCall ==
    /\ parsePc = "idle"
    /\ parseData' \in ParseInputs
    /\ parseOffset' = 8
    /\ parseChunks' = <<>>
    /\ parseOffsets' = <<>>
    /\ parsePc' = "loop"
    /\ UNCHANGED <<callVars, previous, uiVars>>

\* A variant that steps over the length, the type and the data only.
ExtractStep_NoCrc ==
    /\ parsePc = "loop"
    /\ parseOffset < Len(parseData)
    /\ parseOffset + 4 <= Len(parseData)
    /\ LET chunkLength == GetUint32(parseData, parseOffset)
           chunkType == TextDecode(Slice(parseData, parseOffset + 4, parseOffset + 8))
           chunkData == Slice(parseData, parseOffset + 8, parseOffset + 8 + chunkLength)
       IN  /\ parseChunks' = Append(parseChunks, [type |-> chunkType, data |-> chunkData])
           /\ parseOffset' = parseOffset + chunkLength + 8
           /\ parsePc' = IF chunkType = TypeIEND THEN "returned" ELSE "loop"
    /\ parseOffsets' = Append(parseOffsets, parseOffset)
    /\ UNCHANGED <<parseData, callVars, previous, uiVars>>

\* One round of the while loop: the chunk at `offset` is pushed, the offset
\* moves on by chunkLength + 12, and an IEND chunk breaks the loop.
ExtractStep ==
    /\ parsePc = "loop"
    /\ parseOffset < Len(parseData)
    /\ parseOffset + 4 <= Len(parseData)
    /\ LET chunkLength == GetUint32(parseData, parseOffset)
           chunkType == TextDecode(Slice(parseData, parseOffset + 4, parseOffset + 8))
           chunkData == Slice(parseData, parseOffset + 8, parseOffset + 8 + chunkLength)
       IN  /\ parseChunks' = Append(parseChunks, [type |-> chunkType, data |-> chunkData])
           /\ parseOffset' = parseOffset + chunkLength + 12
           /\ parsePc' = IF chunkType = TypeIEND THEN "returned" ELSE "loop"
    /\ parseOffsets' = Append(parseOffsets, parseOffset)
    /\ UNCHANGED <<parseData, callVars, previous, uiVars>>

\* getUint32(0) on a view of fewer than four bytes throws a RangeError.
ExtractThrow ==
    /\ parsePc = "loop"
    /\ parseOffset < Len(parseData)
    /\ parseOffset + 4 > Len(parseData)
    /\ parsePc' = "thrown"
    /\ UNCHANGED <<parseData, parseOffset, parseChunks, parseOffsets>>
    /\ UNCHANGED <<callVars, previous, uiVars>>

\* The loop condition offset < pngData.length fails: return chunks.
ExtractReturn ==
    /\ parsePc = "loop"
    /\ ~(parseOffset < Len(parseData))
    /\ parsePc' = "returned"
    /\ UNCHANGED <<parseData, parseOffset, parseChunks, parseOffsets>>
    /\ UNCHANGED <<callVars, previous, uiVars>>

ExtractRuns == ExtractStep \/ ExtractThrow \/ ExtractReturn

NextParse ==
    \/ ExtractCall
    \/ ExtractStep
    \/ ExtractThrow
    \/ ExtractReturn

\* A function that has been called runs on: nothing else shares its thread.
SpecParse == Init /\ [][NextParse]_vars /\ WF_vars(ExtractRuns)

-----------------------------------------------------------------------------
(* The page                                                                *)
(*                                                                         *)
(* Three versions of App drive convertToAPNG: one calls convert() from its *)
(* input handlers and stores the result with `if (res) setData(res)`; two  *)
(* run a createEffect on the `files` and `delay` signals and store with    *)
(* `if (res?.url) setData(res)` or `if (res?.url) setUrl(res.url)`.        *)
(* createAPNG has no await inside and the awaits around it resume in       *)
(* microtasks, so no input event runs between the call and the storing of  *)
(* its result.                                                             *)

Variants == {"convert", "effectData", "effectUrl"}

UiPool == {Png1x1, PngNoIhdr, PngCutLength}

FileLists == UNION { [1..n -> UiPool] : n \in 0..MaxImages }

\* (performance.now() - start).toFixed(1)
Times == {"0.1", "0.2"}

\* App() runs: the signals and the store are created.
Mount ==
    /\ variant = "none"
    /\ variant' \in Variants
    /\ files' = <<>>
    /\ delaySignal' = 100
    /\ uiData' = EmptyStore
    /\ UNCHANGED <<callVars, previous, parseVars>>

\* convertToAPNG(files(), delay()) is called from the page.
CallFromPage(fs, d) ==
    /\ images' = fs
    /\ delay' = d
    /\ pc' = "start"
    /\ chunks' = <<>>
    /\ firstImageChunks' = <<>>
    /\ width' = 0
    /\ height' = 0
    /\ j' = 0
    /\ sequenceNumber' = 0
    /\ i' = 0
    /\ binary' = <<>>
    /\ error' = "none"
    /\ ret' = NoReturn

\* handleInput / handleClick: the files are read and set; convert() is
\* called, or the effect runs again; both convert only a non-empty list.
HandleInput ==
    /\ variant # "none"
    /\ pc = "idle"
    /\ \E fs \in FileLists :
          /\ files' = fs
          /\ IF Len(fs) > 0 THEN CallFromPage(fs, delaySignal)
             ELSE UNCHANGED callVars
    /\ UNCHANGED <<variant, delaySignal, uiData, previous, parseVars>>

\* The range input: setDelay.  The effect versions run the effect again;
\* the convert() version converts only on the next input of files.
SlideDelay ==
    /\ variant # "none"
    /\ pc = "idle"
    /\ \E d \in Delays \ {delaySignal} :
          /\ delaySignal' = d
          /\ IF variant # "convert" /\ Len(files) > 0 THEN CallFromPage(files, d)
             ELSE UNCHANGED callVars
    /\ UNCHANGED <<variant, files, uiData, previous, parseVars>>

\* A variant that stores whatever convertToAPNG returned.
ConvertStore_Unchecked ==
    /\ variant = "convert"
    /\ pc = "done"
    /\ \E t \in Times :
          uiData' = [url |-> ret.url, binary |-> ret.binary,
                     processingTime |-> IF ret.kind = "value" THEN t ELSE ""]
    /\ pc' = "idle"
    /\ UNCHANGED <<images, delay, chunks, firstImageChunks, width, height, j,
                   sequenceNumber, i, binary, error, ret>>
    /\ UNCHANGED <<variant, files, delaySignal, previous, parseVars>>

\* convert() after the await: if (res) setData(res).
ConvertStore ==
    /\ variant = "convert"
    /\ pc = "done"
    /\ IF ret.kind = "value"
       THEN \E t \in Times :
               uiData' = [url |-> ret.url, binary |-> ret.binary,
                          processingTime |-> t]
       ELSE uiData' = uiData
    /\ pc' = "idle"
    /\ UNCHANGED <<images, delay, chunks, firstImageChunks, width, height, j,
                   sequenceNumber, i, binary, error, ret>>
    /\ UNCHANGED <<variant, files, delaySignal, previous, parseVars>>

\* The effect after the await: if (res?.url) setData(res).
EffectStoreData ==
    /\ variant = "effectData"
    /\ pc = "done"
    /\ IF ret.kind = "value" /\ ret.url # ""
       THEN \E t \in Times :
               uiData' = [url |-> ret.url, binary |-> ret.binary,
                          processingTime |-> t]
       ELSE uiData' = uiData
    /\ pc' = "idle"
    /\ UNCHANGED <<images, delay, chunks, firstImageChunks, width, height, j,
                   sequenceNumber, i, binary, error, ret>>
    /\ UNCHANGED <<variant, files, delaySignal, previous, parseVars>>

\* The effect after the await: if (res?.url) setUrl(res.url).
EffectStoreUrl ==
    /\ variant = "effectUrl"
    /\ pc = "done"
    /\ IF ret.kind = "value" /\ ret.url # ""
       THEN uiData' = [uiData EXCEPT !.url = ret.url]
       ELSE uiData' = uiData
    /\ pc' = "idle"
    /\ UNCHANGED <<images, delay, chunks, firstImageChunks, width, height, j,
                   sequenceNumber, i, binary, error, ret>>
    /\ UNCHANGED <<variant, files, delaySignal, previous, parseVars>>

NextUI ==
    \/ Mount
    \/ HandleInput
    \/ SlideDelay
    \/ ParseFirstImage /\ UNCHANGED Aside
    \/ CopyChunk /\ UNCHANGED Aside
    \/ EmitActl /\ UNCHANGED Aside
    \/ EmitFctl /\ UNCHANGED Aside
    \/ EmitFrameData /\ UNCHANGED Aside
    \/ EmitIend /\ UNCHANGED Aside
    \/ ConvertReturn /\ UNCHANGED Aside
    \/ ConvertCatch /\ UNCHANGED Aside
    \/ ConvertStore
    \/ EffectStoreData
    \/ EffectStoreUrl

SpecUI == Init /\ [][NextUI]_vars

-----------------------------------------------------------------------------
(* Calls in sequence                                                       *)
(*                                                                         *)
(* convertToAPNG is called again and again.  The sequence counter keeps    *)
(* the value the earlier call left, as it would if it lived outside the    *)
(* call, so that its restart is something the calls do, not something the  *)
(* model grants.  `previous` remembers one earlier call, chosen freely     *)
(* among the calls in ProbeCalls; any number of other calls may lie        *)
(* between the remembered call and the current one.                        *)

CallPool == {Png1x1, PngRich, PngNoIhdr, PngCutLength}

CallLists == UNION { [1..n -> CallPool] : n \in 0..MaxImages }

ProbeCalls ==
    { [images |-> <<PngRich, PngRich>>, delay |-> 100],
      [images |-> <<Png1x1>>, delay |-> 500],
      [images |-> <<Png1x1, PngCutLength>>, delay |-> 500] }

\* The call that has just returned, as `previous` remembers it.
FinishedCall ==
    [kind |-> ret.kind, images |-> images, delay |-> delay, binary |-> ret.binary]

\* convertToAPNG(images, delay) is called after (or before) other calls.
ConvertCallAgain ==
    /\ pc \in {"idle", "done"}
    /\ \E imgs \in CallLists, d \in Delays :
          /\ images' = imgs
          /\ delay' = d
    /\ \/ previous' = previous
       \/ /\ pc = "done"
          /\ [images |-> images, delay |-> delay] \in ProbeCalls
          /\ previous' = FinishedCall
    /\ pc' = "start"
    /\ chunks' = <<>>
    /\ firstImageChunks' = <<>>
    /\ width' = 0
    /\ height' = 0
    /\ j' = 0
    /\ sequenceNumber' = sequenceNumber
    /\ i' = 0
    /\ binary' = <<>>
    /\ error' = "none"
    /\ ret' = NoReturn
    /\ UNCHANGED <<uiVars, parseVars>>

NextCalls ==
    \/ ConvertCallAgain
    \/ ParseFirstImage /\ UNCHANGED Aside
    \/ CopyChunk /\ UNCHANGED Aside
    \/ EmitActl /\ UNCHANGED Aside
    \/ EmitFctl /\ UNCHANGED Aside
    \/ EmitFrameData /\ UNCHANGED Aside
    \/ EmitIend /\ UNCHANGED Aside
    \/ ConvertReturn /\ UNCHANGED Aside
    \/ ConvertCatch /\ UNCHANGED Aside

SpecCalls == Init /\ [][NextCalls]_vars

-----------------------------------------------------------------------------
(* Reading the output back                                                 *)

\* createAPNG has produced its output (and, at "done", returned it).
Succeeded == pc = "built" \/ (pc = "done" /\ ret.kind = "value")

\* The byte arrays pushed after the signature.
OutputChunks == Tail(chunks)

\* The fields of an emitted byte array, read at the places the chunk layout
\* gives them: length at 0, type at 4, payload from 8, CRC in the last four.
LengthField(c) == GetUint32(c, 0)
TypeField(c) == SubSeq(c, 5, 8)
Payload(c) == SubSeq(c, 9, Len(c) - 4)
CrcField(c) == SubSeq(c, Len(c) - 3, Len(c))

IsType(c, type) == Len(c) >= 12 /\ TypeField(c) = type

\* The position in `chunks` of the acTL that createAPNG pushes: after the
\* signature and the j - 1 copied chunks.
ActlIndex == j + 1

\* What createAPNG pushes after its acTL and before IEND.
FrameChunks == SubSeq(chunks, ActlIndex + 1, Len(chunks) - 1)

\* The fcTL and fdAT chunks of a list, in order.
RECURSIVE SequenceCarriers(_)
SequenceCarriers(cs) ==
    IF cs = <<>> THEN <<>>
    ELSE IF IsType(Head(cs), TypefcTL) \/ IsType(Head(cs), TypefdAT)
         THEN <<Head(cs)>> \o SequenceCarriers(Tail(cs))
         ELSE SequenceCarriers(Tail(cs))

\* The sequence numbers a list of chunks carries, in order.
SequenceNumbers(cs) ==
    [k \in 1..Len(SequenceCarriers(cs)) |-> GetUint32(SequenceCarriers(cs)[k], 8)]

\* The IDAT payloads of frame f (0-based), as extractAllChunks reads them.
FrameIdat(f) == IdatData(extractAllChunks(images[f + 1]).chunks)

\* The number of IDAT chunks of the frames 1 .. n - 1 (the non-key frames).
RECURSIVE NonKeyIdatCount(_)
NonKeyIdatCount(n) ==
    IF n <= 1 THEN 0 ELSE NonKeyIdatCount(n - 1) + Len(FrameIdat(n - 1))

-----------------------------------------------------------------------------
(* C1: in the output, read in emission order, the sequence numbers carried  *)
(* by the fcTL and fdAT chunks are 0, 1, 2, ... with no gap and no reuse.   *)
(* The code copies the key frame's chunks before its first IDAT unchanged,  *)
(* so a key frame that is itself animated brings its own acTL and fcTL into *)
(* the output, and sequence number 0 is carried twice.                      *)
C1_SequenceNumbersConsecutive ==
    Succeeded =>
        \A k \in 1..Len(SequenceNumbers(OutputChunks)) :
            SequenceNumbers(OutputChunks)[k] = k - 1

-----------------------------------------------------------------------------
(* C2 as stated: the sequence numbers assigned in a call are exactly        *)
(* 0 .. N-1 with N = 1 + frames + (IDAT chunks of the non-key frames).      *)
C2_CountWithExtraOne ==
    Succeeded =>
        { SequenceNumbers(FrameChunks)[k] : k \in 1..Len(SequenceNumbers(FrameChunks)) }
            = 0..(1 + Len(images) + NonKeyIdatCount(Len(images)) - 1)

(* C2 as amended: the sequence numbers createAPNG assigns (those of the     *)
(* fcTL and fdAT chunks it pushes after its acTL) are exactly 0 .. N-1,     *)
(* each once and in increasing order, with N = frames + (IDAT chunks of the *)
(* non-key frames); the acTL payload is the 8 bytes of frame count and loop *)
(* count and takes no number: the first fcTL after it carries 0.            *)
C2_AssignedSequenceNumbers ==
    Succeeded =>
        /\ Len(SequenceNumbers(FrameChunks)) = Len(images) + NonKeyIdatCount(Len(images))
        /\ \A k \in 1..Len(SequenceNumbers(FrameChunks)) :
              SequenceNumbers(FrameChunks)[k] = k - 1
        /\ sequenceNumber = Len(images) + NonKeyIdatCount(Len(images))
        /\ Len(Payload(chunks[ActlIndex])) = 8
        /\ IsType(chunks[ActlIndex + 1], TypefcTL)
        /\ GetUint32(chunks[ActlIndex + 1], 8) = 0

\* A call of two frames whose second frame has two IDAT chunks has succeeded.
C2_Witness ==
    /\ Succeeded
    /\ Len(images) = 2
    /\ images[2] = PngRich

-----------------------------------------------------------------------------
(* C3: the output begins with the 8-byte PNG signature, and its last chunk  *)
(* is IEND with length field 0 and an empty payload (the 12 bytes           *)
(* 00 00 00 00 'IEND' AE 42 60 82 end the buffer).                          *)
C3_SignatureFirstIendLast ==
    Succeeded =>
        /\ Len(binary) >= 20
        /\ SubSeq(binary, 1, 8) = PNG_SIGNATURE
        /\ SubSeq(binary, Len(binary) - 11, Len(binary))
              = <<0, 0, 0, 0, 73, 69, 78, 68, 174, 66, 96, 130>>
        /\ chunks[Len(chunks)] = SubSeq(binary, Len(binary) - 11, Len(binary))
        /\ LengthField(chunks[Len(chunks)]) = 0
        /\ Payload(chunks[Len(chunks)]) = <<>>

\* A call with two images has produced its output.
C3_Witness ==
    /\ pc = "built"
    /\ Len(images) = 2
    /\ binary # <<>>

-----------------------------------------------------------------------------
(* C4: the output holds exactly one acTL chunk; it follows the copies of    *)
(* the key frame's chunks before its first IDAT (in source order, nothing   *)
(* from the first IDAT on), it precedes the first fcTL, its frame count is  *)
(* images.length and its loop count 0.  An animated key frame's own acTL    *)
(* and fcTL are among the copied chunks, so the output then holds two acTL  *)
(* chunks and an fcTL before the acTL createAPNG adds.                      *)
C4_ExactlyOneActl ==
    Succeeded =>
        /\ Cardinality({ k \in 1..Len(chunks) : IsType(chunks[k], TypeacTL) }) = 1
        /\ IsType(chunks[ActlIndex], TypeacTL)
        /\ Payload(chunks[ActlIndex]) = SetUint32(Len(images)) \o <<0, 0, 0, 0>>
        /\ \A k \in 1..(ActlIndex - 1) : ~IsType(chunks[k], TypefcTL)
        /\ \A k \in 2..(ActlIndex - 1) :
              /\ firstImageChunks[k - 1].type # TypeIDAT
              /\ chunks[k] = createChunk(firstImageChunks[k - 1].type,
                                         firstImageChunks[k - 1].data)
        /\ IF ActlIndex - 1 <= Len(firstImageChunks)
           THEN firstImageChunks[ActlIndex - 1].type = TypeIDAT
           ELSE TRUE

-----------------------------------------------------------------------------
(* C5: after its acTL the output is, frame by frame in increasing order,    *)
(* one fcTL (sequence number, the key frame's IHDR width and height,        *)
(* offsets 0, the delay over 1000, dispose 0, blend 0) followed by that     *)
(* frame's IDAT payloads in source order: as IDAT chunks for frame 0, and   *)
(* for a later frame each as an fdAT whose payload is its sequence number   *)
(* and the unchanged IDAT payload; nothing else of a later frame appears.   *)
(* Two single-IDAT images with delay 100 give IHDR, acTL(2), fcTL(0), IDAT, *)
(* fcTL(1), fdAT(2), IEND.                                                  *)

\* The key frame's IHDR payload, read from the input.
KeyIhdrData ==
    (CHOOSE c \in { extractAllChunks(images[1]).chunks[k] :
                      k \in 1..Len(extractAllChunks(images[1]).chunks) } :
        c.type = TypeIHDR /\ Len(c.data) >= 8).data

\* The sequence number of frame f's fcTL, in closed form.
FirstNumber(f) == f + NonKeyIdatCount(f)

\* Type and payload of the chunks expected for frame f (0-based).
ExpectedFrame(f) ==
    << [type |-> TypefcTL,
        payload |-> SetUint32(FirstNumber(f)) \o SubSeq(KeyIhdrData, 1, 8)
                    \o <<0, 0, 0, 0, 0, 0, 0, 0>>
                    \o <<delay \div 256, delay % 256>> \o <<3, 232>> \o <<0, 0>>] >>
    \o [n \in 1..Len(FrameIdat(f)) |->
          IF f = 0
          THEN [type |-> TypeIDAT, payload |-> FrameIdat(f)[n]]
          ELSE [type |-> TypefdAT,
                payload |-> SetUint32(FirstNumber(f) + n) \o FrameIdat(f)[n]]]

\* The chunks expected for the frames 0 .. n - 1.
RECURSIVE ExpectedFrames(_)
ExpectedFrames(n) ==
    IF n = 0 THEN <<>> ELSE ExpectedFrames(n - 1) \o ExpectedFrame(n - 1)

\* C5: the chunks pushed after acTL are exactly the expected frames, and the
\* two-image scenario gives the listed chunk sequence.
C5_FramesAfterActl ==
    Succeeded =>
        /\ [k \in 1..Len(FrameChunks) |->
              [type |-> TypeField(FrameChunks[k]), payload |-> Payload(FrameChunks[k])]]
              = ExpectedFrames(Len(images))
        /\ \A k \in 1..Len(FrameChunks) :
              LengthField(FrameChunks[k]) = Len(Payload(FrameChunks[k]))
        /\ (images = <<Png1x1, Png1x1>> /\ delay = 100) =>
              /\ [k \in 1..Len(OutputChunks) |-> TypeField(OutputChunks[k])]
                    = <<TypeIHDR, TypeacTL, TypefcTL, TypeIDAT, TypefcTL, TypefdAT,
                        TypeIEND>>
              /\ GetUint32(OutputChunks[2], 8) = 2
              /\ SequenceNumbers(OutputChunks) = <<0, 1, 2>>
              /\ Payload(OutputChunks[4]) = <<120, 156>>
              /\ Payload(OutputChunks[6]) = <<0, 0, 0, 2, 120, 156>>

\* A call whose second frame brings two IDAT chunks, a chunk between them
\* and IEND, and an IDAT after IEND, has produced its output.
C5_Witness ==
    /\ Succeeded
    /\ images = <<PngRich, PngRich>>
    /\ Len(FrameChunks) = 6

-----------------------------------------------------------------------------
(* C6: round trip.  Parsing the output with extractAllChunks gives a chunk  *)
(* stream whose IHDR width and height are those of images[0], whose acTL    *)
(* frame count is images.length, and which holds exactly images.length fcTL *)
(* chunks, each with delay numerator d.  A key frame without IDAT has its   *)
(* IEND copied before the acTL, and the parse of the output stops there.    *)
Reparsed == extractAllChunks(binary)

C6_RoundTrip ==
    Succeeded =>
        /\ Reparsed.err = "none"
        /\ FindType(Reparsed.chunks, TypeIHDR, 1) # 0
        /\ SubSeq(Reparsed.chunks[FindType(Reparsed.chunks, TypeIHDR, 1)].data, 1, 8)
              = SubSeq(KeyIhdrData, 1, 8)
        /\ FindType(Reparsed.chunks, TypeacTL, 1) # 0
        /\ SubSeq(Reparsed.chunks[FindType(Reparsed.chunks, TypeacTL, 1)].data, 1, 4)
              = SetUint32(Len(images))
        /\ Cardinality({ k \in 1..Len(Reparsed.chunks) :
                            Reparsed.chunks[k].type = TypefcTL }) = Len(images)
        /\ \A k \in 1..Len(Reparsed.chunks) :
              Reparsed.chunks[k].type = TypefcTL =>
                  /\ Len(Reparsed.chunks[k].data) = 26
                  /\ GetUint16(Reparsed.chunks[k].data, 20) = delay

-----------------------------------------------------------------------------
(* C7: every chunk of the output is a 4-byte length, a 4-byte type tag, the *)
(* payload and a 4-byte CRC, the length field being the payload's byte      *)
(* count and the CRC being crc32 of type tag and payload.  A copied chunk   *)
(* whose type bytes are not valid UTF-8 is written with the re-encoded      *)
(* string, which is longer than 4 bytes.                                    *)
C7_ChunkFraming ==
    Succeeded =>
        \A k \in 2..Len(chunks) :
            /\ Len(chunks[k]) >= 12
            /\ LengthField(chunks[k]) = Len(chunks[k]) - 12
            /\ CrcField(chunks[k])
                  = CrcBytes(crc32(SubSeq(chunks[k], 5, Len(chunks[k]) - 4)))

-----------------------------------------------------------------------------
(* C8: a buffer in which a chunk's declared length reads past the end makes *)
(* the parse fail, and createAPNG on it yields an error and no output.      *)
(* Uint8Array.slice clamps at the end of the buffer, so a payload that is   *)
(* cut short is returned as it is and the call succeeds.                    *)

\* Some chunk the parse visits from `offset` on declares a payload that
\* ends after the buffer does.
RECURSIVE ReadsPastEnd(_, _)
ReadsPastEnd(pngData, offset) ==
    IF ~(offset < Len(pngData)) THEN FALSE
    ELSE IF offset + 8 > Len(pngData) THEN TRUE
    ELSE IF offset + 8 + GetUint32(pngData, offset) > Len(pngData) THEN TRUE
    ELSE IF SubSeq(pngData, offset + 5, offset + 8) = TypeIEND THEN FALSE
    ELSE ReadsPastEnd(pngData, offset + GetUint32(pngData, offset) + 12)

\* C8: a call given a buffer whose declared length reads past its end
\* returns the error outcome and builds no output.
C8_TruncatedBufferFails ==
    (pc = "done" /\ \E k \in 1..Len(images) : ReadsPastEnd(images[k], 8)) =>
        /\ ret.kind = "undefined"
        /\ error # "none"
        /\ binary = <<>>

-----------------------------------------------------------------------------
(* C9: an empty image list ends the call with an error that an explicit     *)
(* check for zero images raises, with no output buffer and no object URL.   *)
(* The code has no such check: images[0] is undefined and reading its       *)
(* length throws a TypeError, which convertToAPNG catches.                  *)

\* The exceptions the JavaScript runtime raises on an unchecked access,
\* as opposed to those a `throw` statement of the code raises.
RuntimeErrors == {"TypeError", "RangeError"}

\* C9: the call with no images returns undefined, builds nothing, and its
\* error is raised by a check of the code, not by the runtime.
C9_EmptyInputCheckedError ==
    (pc = "done" /\ images = <<>>) =>
        /\ ret = [kind |-> "undefined", url |-> "", binary |-> <<>>]
        /\ binary = <<>>
        /\ error # "none"
        /\ error \notin RuntimeErrors

-----------------------------------------------------------------------------
(* C10: when images[0] parses into a chunk stream without IHDR, createAPNG  *)
(* throws its "IHDR chunk not found" error before pushing any chunk; the    *)
(* call goes nowhere else than to convertToAPNG's catch, which returns      *)
(* undefined, with no output buffer and no object URL.                      *)

\* images[0] parses, and no chunk of the stream has type IHDR.
KeyFrameWithoutIhdr ==
    /\ Len(images) > 0
    /\ extractAllChunks(images[1]).err = "none"
    /\ \A k \in 1..Len(extractAllChunks(images[1]).chunks) :
          extractAllChunks(images[1]).chunks[k].type # TypeIHDR

\* C10: once the key frame is found to have no IHDR the call is thrown or
\* done, with the IHDR error, nothing pushed but the signature, no output.
C10_MissingHeaderIsFatal ==
    (KeyFrameWithoutIhdr /\ pc \notin {"idle", "start"}) =>
        /\ pc \in {"thrown", "done"}
        /\ error = "IHDRNotFound"
        /\ chunks = <<PNG_SIGNATURE>>
        /\ binary = <<>>
        /\ pc = "done" => ret = [kind |-> "undefined", url |-> "", binary |-> <<>>]

\* A call whose key frame has no IHDR has returned.
C10_Witness ==
    /\ pc = "done"
    /\ Len(images) = 2
    /\ images[1] = PngNoIhdr
    /\ error = "IHDRNotFound"

\* C11: calls are independent of each other.  A call that has the images and
\* the delay of a remembered earlier call returns what that call returned,
\* success or failure, byte for byte, whatever calls lie between the two;
\* and the sequence counter restarts in every call: whatever value the
\* earlier calls left in it, the first fcTL of a call carries 0 and leaves
\* the counter at 1.
SameCallAsPrevious ==
    /\ previous.kind # "none"
    /\ images = previous.images
    /\ delay = previous.delay

C11_CallsIndependent ==
    /\ (pc = "done" /\ SameCallAsPrevious) =>
          /\ ret.kind = previous.kind
          /\ ret.binary = previous.binary
    /\ (pc = "frames" /\ i = 0) => sequenceNumber = 0
    /\ (pc = "data" /\ i = 0) =>
          /\ sequenceNumber = 1
          /\ chunks[Len(chunks)] = createFctlChunk(0, width, height, delay)

\* A two-frame call repeated after the remembered one has returned the same
\* animation, fdAT chunks included.
C11_Witness ==
    /\ pc = "done"
    /\ SameCallAsPrevious
    /\ ret.kind = "value"
    /\ Len(images) = 2
    /\ ret.binary = previous.binary
    /\ sequenceNumber = 4

\* C12: a failed conversion leaves the page as it was.  From the call to the
\* handling of its result, every step of a conversion leaves the file list
\* and the delay alone, and every step other than the storing of a
\* successful result leaves the stored url, binary and processingTime alone;
\* in particular the step that handles `undefined` changes none of them, in
\* convert() and in both effects.
ConversionRunning == pc \notin {"idle"}

C12_FailureKeepsPageState ==
    [][ /\ ConversionRunning => (files' = files /\ delaySignal' = delaySignal)
        /\ (ConversionRunning /\ ~(pc = "done" /\ ret.kind = "value")) =>
              uiData' = uiData
        /\ (pc = "done" /\ ret.kind = "undefined") =>
              (pc' = "idle" /\ UNCHANGED uiVars) ]_vars

\* A failed conversion has been handled and the preview of an earlier
\* successful one is still stored, next to the files that failed.
C12_Witness ==
    /\ pc = "idle"
    /\ ret.kind = "undefined"
    /\ files = images
    /\ Len(files) = 2
    /\ delaySignal = 500
    /\ uiData.url # ""
    /\ uiData.binary # <<>>
    /\ variant = "convert"

\* C13 as stated: whenever extractAllChunks has ended, it has stopped after
\* an IEND chunk or with the offset at (or past) the end of the buffer.
ParseEnded == parsePc \in {"returned", "thrown"}

LastIsIend ==
    /\ parseChunks # <<>>
    /\ parseChunks[Len(parseChunks)].type = TypeIEND

C13_StopsAtIendOrEnd ==
    ParseEnded => (LastIsIend \/ parseOffset >= Len(parseData))

\* C13, amended: the loop starts at offset 8; the k-th chunk is the one read
\* at the k-th offset, and the next offset is that offset plus the declared
\* length plus 12, so the chunks come in source order; no chunk follows an
\* IEND chunk; a return comes after an IEND chunk or with the offset at the
\* end of the buffer, and the only other end is a RangeError with one to
\* three bytes left at the offset; the result is that of extractAllChunks
\* as the other specifications use it; and every call ends.
ChunkAt(o) ==
    [type |-> TextDecode(Slice(parseData, o + 4, o + 8)),
     data |-> Slice(parseData, o + 8, o + 8 + GetUint32(parseData, o))]

NextOffset(k) ==
    IF k < Len(parseOffsets) THEN parseOffsets[k + 1] ELSE parseOffset

C13_LoopInvariant ==
    /\ Len(parseOffsets) = Len(parseChunks)
    /\ (parsePc # "idle" /\ parseChunks = <<>>) => parseOffset = 8
    /\ parseOffsets # <<>> => parseOffsets[1] = 8
    /\ \A k \in 1..Len(parseChunks) :
          /\ parseOffsets[k] + 4 <= Len(parseData)
          /\ parseChunks[k] = ChunkAt(parseOffsets[k])
          /\ NextOffset(k) = parseOffsets[k] + GetUint32(parseData, parseOffsets[k]) + 12
          /\ k < Len(parseChunks) => parseChunks[k].type # TypeIEND
    /\ parsePc = "loop" => (~LastIsIend /\ ENABLED ExtractRuns)
    /\ parsePc = "returned" =>
          /\ LastIsIend \/ parseOffset >= Len(parseData)
          /\ extractAllChunks(parseData) = [err |-> "none", chunks |-> parseChunks]
    /\ parsePc = "thrown" =>
          /\ ~LastIsIend
          /\ parseOffset < Len(parseData)
          /\ parseOffset + 4 > Len(parseData)
          /\ extractAllChunks(parseData).err = "RangeError"

C13_LoopEndsOneOfThreeWays ==
    /\ []C13_LoopInvariant
    /\ (parsePc = "loop") ~> ParseEnded

\* Two chunks were read and the third has a length field cut short: the
\* call ended with a RangeError, the offset before the end of the buffer.
C13_Witness ==
    /\ parsePc = "thrown"
    /\ Len(parseChunks) = 2
    /\ parseOffset < Len(parseData)
    /\ parseChunks[1].type = TypeIHDR

====
